---- MODULE Spec2Model ----
(***************************************************************************)
(* A model of the capacity modelling pipeline of tjujingzong/perftest:     *)
(*   - test_rabbitmq.py: run_perftest (parsing of the compact output, the  *)
(*     aggregation and the stability classification), record, write_csvs   *)
(*     and the coarse/refinement search of main();                         *)
(*   - normalize_metrics.py: generate_capacity_extrapolation, and its      *)
(*     caller capacity_extrapolation_example of collect_and_normalize.py;  *)
(*     normalize_db_metrics and normalize_mq_metrics;                      *)
(*   - kbbench_sweep.py: parse_metrics and the sweep loop of main().       *)
(*                                                                         *)
(* Conventions.  An optional value (Python None, an unassigned local) is   *)
(* the empty tuple <<>>, a present value v is <<v>>.  A float that the     *)
(* code computes from integers is an exact fraction [num, den], den > 0.   *)
(* An exception is the name of its class in a field `raised`, "" if none.  *)
(***************************************************************************)
EXTENDS Integers, Sequences, FiniteSets, TLC

VARIABLES
    pc,              \* position of the program modelled by the specification
    args,            \* the parsed command line (parse_args), fixed during a run
    Rstar,           \* <<R>>: the synthetic runner "stable iff rate <= R"; <<>>: any output
    rate,            \* main(): rate of the coarse phase
    last_ok,         \* main(): last_ok
    hi,              \* main(): hi, <<>> while None
    lo,              \* main(): lo, <<>> until the refinement phase assigns it
    all_ts_rows,     \* main(): the time-series log
    all_sum_rows,    \* main(): the summary run log
    calls,           \* history: number of calls of run_perftest
    returned,        \* history: [phase, rate, success] of every call that returned
    last_out,        \* history: the process output the last call consumed, <<>> before
    error,           \* the exception that ended main(), "" if none
    report,          \* what main() printed at its end, <<>> before
    csv,             \* write_csvs: number of calls and the rows last written
    output,          \* SpecTrial: the process output handed to run_perftest
    trial,           \* SpecTrial: what run_perftest made of it, <<>> before
    normalized_df,   \* SpecExtrap: the normalized records
    target_slo,      \* SpecExtrap: the target SLO
    recommendations, \* SpecExtrap: the outcome of the extrapolation, <<>> before
    env,             \* SpecNorm: the environment descriptor [cpu_cores, memory_gb]
    raw_df,          \* SpecNorm: the raw frame [kind, rows] read from the CSV
    results,         \* SpecNorm: the outcome of the normalization, <<>> before
    sweep_args,      \* SpecSweep: [client_list, repeats] of kbbench_sweep.main
    sweep_at,        \* SpecSweep: [ci, r], the position of the two loops
    out_csv,         \* SpecSweep: the rows appended to the result file
    events,          \* SpecSweep history: every run and every sleep, in order
    sweep_error      \* SpecSweep: the exception that ended the sweep, "" if none

vars == <<pc, args, Rstar, rate, last_ok, hi, lo, all_ts_rows, all_sum_rows, calls,
          returned, last_out, error, report, csv, output, trial, normalized_df,
          target_slo, recommendations, env, raw_df, results, sweep_args,
          sweep_at, out_csv, events, sweep_error>>

searchVars == <<Rstar, rate, last_ok, hi, lo, all_ts_rows, all_sum_rows, calls,
                returned, last_out, error, report, csv>>

(***************************************************************************)
(* Bounds of the model                                                     *)
(***************************************************************************)
\* longest process output, in lines, that SpecTrial hands to run_perftest
MaxLines == 2
\* longest record set that SpecExtrap hands to the extrapolation
MaxRows == 3
\* the synthetic thresholds R* of SpecMono are the multiples k * RstarStep,
\* k in 0..RstarCount, and the edges of the probed rates
RstarCount == 200
RstarStep == 5003

(***************************************************************************)
(* Arithmetic helpers                                                      *)
(***************************************************************************)
Max2(a, b) == IF a >= b THEN a ELSE b

\* Python round(n / d) for n >= 0, d > 0: to the nearest integer, ties to even
RoundHalfEven(n, d) ==
    LET q == n \div d
        r == n % d
    IN  IF 2 * r < d THEN q
        ELSE IF 2 * r > d THEN q + 1
        ELSE IF q % 2 = 0 THEN q ELSE q + 1

\* fractions [num, den] with den > 0
Frac(n, d) == [num |-> n, den |-> d]
FracLess(x, y) == x.num * y.den < y.num * x.den
FracEq(x, y) == x.num * y.den = y.num * x.den
\* Python int() of a fraction >= 0
FracInt(x) == x.num \div x.den

(***************************************************************************)
(* The process output: one line of text                                    *)
(*                                                                         *)
(* A line is [kind |-> "other"], a line COMPACT_LINE_RE does not match, or *)
(* a line it matches: [kind |-> "compact", tsec, sent, recv, lat, unit].   *)
(* sent and recv are the groups [\d,]+ with the commas removed, lat is the *)
(* group [\d/]+ split at "/": each piece is <<n>>, the digits of n, or     *)
(* <<>>, no digit at all ("," for sent, the middle of "1//2" for lat).     *)
(***************************************************************************)
OtherLine == [kind |-> "other"]
CompactLine(t, s, r, l, u) ==
    [kind |-> "compact", tsec |-> t, sent |-> s, recv |-> r, lat |-> l, unit |-> u]

\* Python int(text) raises ValueError on the empty string
IntRaises(piece) == piece = <<>>

\* lines 109-113: the conversions of a matched line raise ValueError
ParseRaises(line) ==
    /\ line.kind = "compact"
    /\ \/ IntRaises(line.sent)
       \/ IntRaises(line.recv)
       \/ \E i \in 1..Len(line.lat) : IntRaises(line.lat[i])

\* lines 115-121: int(round(part * factor)), factor 0.001 for a microsecond unit
ToMillis(part, unit) ==
    IF unit = "us" THEN RoundHalfEven(part, 1000) ELSE part

\* lines 108-130: the row appended for a matched line whose conversions succeed
ParseSample(line) ==
    LET five == Len(line.lat) = 5
    IN  [time_s |-> line.tsec,
         sent_msg_s |-> line.sent[1],
         received_msg_s |-> line.recv[1],
         p50_ms |-> IF five THEN ToMillis(line.lat[2][1], line.unit) ELSE -1,
         p95_ms |-> IF five THEN ToMillis(line.lat[4][1], line.unit) ELSE -1,
         p99_ms |-> IF five THEN ToMillis(line.lat[5][1], line.unit) ELSE -1]

\* lines 102-130: the rows of the lines read, in order (no line raises)
RECURSIVE Timeseries(_)
Timeseries(lines) ==
    IF lines = <<>> THEN <<>>
    ELSE LET rest == Timeseries(Tail(lines))
         IN  IF Head(lines).kind = "compact"
             THEN <<ParseSample(Head(lines))>> \o rest
             ELSE rest

(***************************************************************************)
(* run_perftest: aggregation and stability classification                  *)
(***************************************************************************)
RECURSIVE SumSent(_)
SumSent(ts) == IF ts = <<>> THEN 0 ELSE Head(ts).sent_msg_s + SumSent(Tail(ts))

RECURSIVE SumRecv(_)
SumRecv(ts) == IF ts = <<>> THEN 0 ELSE Head(ts).received_msg_s + SumRecv(Tail(ts))

\* lines 141-147: avg_sent, avg_recv (statistics.mean) and worst_p95
AvgSent(ts) == IF ts # <<>> THEN Frac(SumSent(ts), Len(ts)) ELSE Frac(0, 1)
AvgRecv(ts) == IF ts # <<>> THEN Frac(SumRecv(ts), Len(ts)) ELSE Frac(0, 1)

WorstP95OfFirstSample(ts) == IF ts # <<>> THEN ts[1].p95_ms ELSE 0
WorstP95(ts) ==
    LET valid_p95 == {ts[i].p95_ms : i \in {j \in 1..Len(ts) : ts[j].p95_ms >= 0}}
    IN  IF ts # <<>>
        THEN IF valid_p95 # {}
             THEN CHOOSE m \in valid_p95 : \A v \in valid_p95 : v <= m
             ELSE -1
        ELSE 0

\* line 138: the process failed and nothing was parsed
HardFailure(rc, timeseries) == rc # 0 /\ timeseries = <<>>

\* lines 156-157: ratio < args.success_ratio, with ratio = avg_recv / avg_sent
RatioBelowInverted(a, avg_sent, avg_recv) ==
    avg_recv.num * avg_sent.den * a.success_ratio.den
        > a.success_ratio.num * avg_recv.den * avg_sent.num
RatioBelow(a, avg_sent, avg_recv) ==
    avg_recv.num * avg_sent.den * a.success_ratio.den
        < a.success_ratio.num * avg_recv.den * avg_sent.num

\* line 160
P95OverCountsSentinel(a, worst_p95) == worst_p95 > a.p95_limit_ms
P95Over(a, worst_p95) == worst_p95 >= 0 /\ worst_p95 > a.p95_limit_ms

\* lines 150-162: the value of `success`; it starts True and each failing check clears it
SuccessForgetsP95(a, avg_sent, avg_recv, worst_p95) ==
    IF avg_sent.num <= 0 THEN FALSE ELSE ~RatioBelow(a, avg_sent, avg_recv)
StabilitySuccess(a, avg_sent, avg_recv, worst_p95) ==
    IF avg_sent.num <= 0 THEN FALSE
    ELSE ~RatioBelow(a, avg_sent, avg_recv) /\ ~P95Over(a, worst_p95)

\* lines 151-162: note_bits, in the order the checks append them
NoteBits(a, avg_sent, avg_recv, worst_p95) ==
    IF avg_sent.num <= 0 THEN <<"no_data">>
    ELSE (IF RatioBelow(a, avg_sent, avg_recv)
          THEN <<"ratio_below_" \o a.success_ratio.text>> ELSE <<>>)
         \o (IF P95Over(a, worst_p95)
             THEN <<"p95_over_" \o ToString(a.p95_limit_ms) \o "ms">> ELSE <<>>)

\* line 171: ";".join(note_bits)
RECURSIVE JoinNote(_)
JoinNote(bits) ==
    IF bits = <<>> THEN ""
    ELSE IF Len(bits) = 1 THEN bits[1]
    ELSE bits[1] \o ";" \o JoinNote(Tail(bits))

\* lines 164-177: the summary of a trial (the fields that depend on the trial)
Summary(a, r, ts) ==
    LET avg_sent == AvgSent(ts)
        avg_recv == AvgRecv(ts)
        worst_p95 == WorstP95(ts)
    IN  [target_rate_msg_s |-> r,
         avg_sent_msg_s |-> FracInt(avg_sent),
         avg_received_msg_s |-> FracInt(avg_recv),
         worst_p95_ms |-> IF worst_p95 >= 0 THEN worst_p95 ELSE -1,
         success |-> StabilitySuccess(a, avg_sent, avg_recv, worst_p95),
         note |-> JoinNote(NoteBits(a, avg_sent, avg_recv, worst_p95))]

\* lines 72-178: run_perftest on the process output `out` = [rc, lines].
\* `stats` keeps the aggregates the classification read.
RunPerftest(a, r, out) ==
    LET timeseries == Timeseries(out.lines)
    IN  IF \E i \in 1..Len(out.lines) : ParseRaises(out.lines[i])
        THEN [raised |-> "ValueError", timeseries |-> <<>>, summary |-> <<>>,
              stats |-> <<>>]
        ELSE IF HardFailure(out.rc, timeseries)
        THEN [raised |-> "RuntimeError", timeseries |-> <<>>, summary |-> <<>>,
              stats |-> <<>>]
        ELSE [raised |-> "", timeseries |-> timeseries,
              summary |-> Summary(a, r, timeseries),
              stats |-> [avg_sent |-> AvgSent(timeseries),
                         avg_recv |-> AvgRecv(timeseries),
                         worst_p95 |-> WorstP95(timeseries)]]

(***************************************************************************)
(* main(): the search for the maximum stable rate                          *)
(***************************************************************************)
\* line 267: the two numbers of the stopping tolerance max(100, int(0.02 * max(1, lo)))
AbsTolerance == 100
RelToleranceInv == 50

\* parse_args, lines 51-58: the options the search and the classification read;
\* the defaults of --success-ratio and --p95-limit-ms
DefaultRatio == [num |-> 95, den |-> 100, text |-> "0.95"]
DefaultP95Limit == 2000

Args(start, max, growth, warmup) ==
    [start_rate |-> start, max_rate |-> max, growth |-> growth, warmup_rate |-> warmup,
     success_ratio |-> DefaultRatio, p95_limit_ms |-> DefaultP95Limit]

\* the command lines of Spec: growth above, at and below 1, with and without a
\* warmup (below start_rate, above max_rate), a range that one step exhausts,
\* one that is empty from the start, and rates at which 2% of lo exceeds 100
SearchConfigs ==
    { Args(100, 1000, Frac(2, 1), 0),
      Args(6001, 20000, Frac(3, 2), 0),
      Args(1000, 1000, Frac(2, 1), 0),
      Args(100, 1000, Frac(3, 2), 50),
      Args(100, 103, Frac(1, 1), 0),
      Args(100, 102, Frac(1, 2), 0),
      Args(200, 100, Frac(2, 1), 0),
      Args(200, 100, Frac(2, 1), 300) }

\* the command line of SpecMono
MonoConfig == Args(100, 1000000, Frac(2, 1), 0)

\* line 245: int(max(rate + 1, rate * args.growth)), for rate > 0
NextRateWithoutStep(r, growth) == (r * growth.num) \div growth.den
NextRate(r, growth) == Max2(r + 1, (r * growth.num) \div growth.den)

\* line 267: max(100, int(0.02 * max(1, lo)))
ToleranceWide(l) == Max2(10 * AbsTolerance, Max2(1, l) \div RelToleranceInv)
Tolerance(l) == Max2(AbsTolerance, Max2(1, l) \div RelToleranceInv)

\* line 268
MidAtUpperBound(l, h) == h
MidRoundsUp(l, h) == (l + h + 1) \div 2
Mid(l, h) == (l + h) \div 2

\* lines 223-226: record()
RecordTimeseries(rows, r, timeseries) ==
    rows \o [i \in 1..Len(timeseries) |-> [target_rate_msg_s |-> r] @@ timeseries[i]]
RecordSummaryStableOnly(rows, summary) ==
    IF summary.success THEN Append(rows, summary) ELSE rows
RecordSummary(rows, summary) == Append(rows, summary)

\* lines 180-205: write_csvs writes both logs, whole
WriteCsvs(c, ts_rows, sum_rows) ==
    [writes |-> c.writes + 1, ts_rows |-> ts_rows, sum_rows |-> sum_rows]

\* lines 251-252, 259, 277-280: what main() prints about the result
ReportNoSuccess == [kind |-> "no_success"]
ReportCappedAtMax(lastok, max) == [kind |-> "capped", rate |-> max, cap |-> max]
ReportCapped(lastok, max) == [kind |-> "capped", rate |-> lastok, cap |-> max]
ReportEstimate(l) == [kind |-> "estimate", rate |-> l]

(***************************************************************************)
(* Process outputs of the search specifications                            *)
(***************************************************************************)
Lat5(p95) == << <<1>>, <<25>>, <<189>>, <<p95>>, <<p95 + 19>> >>
StableLine == CompactLine(1, <<100>>, <<100>>, Lat5(312), "ms")
LossyLine == CompactLine(1, <<100>>, <<50>>, Lat5(312), "ms")
BrokenLine == CompactLine(1, <<100>>, <<100>>, << <<1>>, <<>>, <<2>> >>, "ms")

StableOutput == [rc |-> 0, lines |-> <<OtherLine, StableLine>>]
UnstableOutput == [rc |-> 0, lines |-> <<LossyLine>>]
StableThenFailedOutput == [rc |-> 1, lines |-> <<StableLine>>]
SilentOutput == [rc |-> 0, lines |-> <<OtherLine>>]
FailedOutput == [rc |-> 1, lines |-> <<OtherLine>>]
BrokenOutput == [rc |-> 0, lines |-> <<StableLine, BrokenLine>>]

SearchOutputs ==
    {StableOutput, UnstableOutput, StableThenFailedOutput, SilentOutput,
     FailedOutput, BrokenOutput}

\* the trial runner: any output, or the synthetic runner that is stable iff r <= R*
RunnerOutputs(r) ==
    IF Rstar = <<>> THEN SearchOutputs
    ELSE {IF r <= Rstar[1] THEN StableOutput ELSE UnstableOutput}

(***************************************************************************)
(* Actions of main()                                                       *)
(***************************************************************************)
trialVars == <<output, trial>>
extrapVars == <<normalized_df, target_slo, recommendations>>
normVars == <<env, raw_df, results>>
sweepVars == <<sweep_args, sweep_at, out_csv, events, sweep_error>>

\* the normalizer and the sweep before they are started
NormIdle == env = <<>> /\ raw_df = <<>> /\ results = <<>>
SweepIdle ==
    /\ sweep_args = <<>>
    /\ sweep_at = <<>>
    /\ out_csv = <<>>
    /\ events = <<>>
    /\ sweep_error = ""

\* run_perftest raised: nothing catches it, main() ends there
Aborts(t, out) ==
    /\ pc' = "aborted"
    /\ error' = t.raised
    /\ calls' = calls + 1
    /\ last_out' = <<out>>
    /\ UNCHANGED <<rate, last_ok, hi, lo, all_ts_rows, all_sum_rows, returned,
                   report, csv>>

\* run_perftest returned and record() ran
Records(phase, r, t, out) ==
    /\ all_ts_rows' = RecordTimeseries(all_ts_rows, r, t.timeseries)
    /\ all_sum_rows' = RecordSummary(all_sum_rows, t.summary)
    /\ calls' = calls + 1
    /\ last_out' = <<out>>
    /\ returned' = Append(returned,
                          [phase |-> phase, rate |-> r, success |-> t.summary.success])

\* lines 229-237: the optional warmup, then the start of the coarse phase
Warmup ==
    /\ pc = "warmup"
    /\ IF args.warmup_rate > 0
       THEN \E out \in RunnerOutputs(args.warmup_rate) :
              LET t == RunPerftest(args, args.warmup_rate, out)
              IN  IF t.raised # "" THEN Aborts(t, out)
                  ELSE /\ Records("warmup", args.warmup_rate, t, out)
                       /\ pc' = "coarse"
                       /\ rate' = args.start_rate
                       /\ last_ok' = 0
                       /\ hi' = <<>>
                       /\ UNCHANGED <<lo, error, report, csv>>
       ELSE /\ pc' = "coarse"
            /\ rate' = args.start_rate
            /\ last_ok' = 0
            /\ hi' = <<>>
            /\ UNCHANGED <<lo, all_ts_rows, all_sum_rows, calls, returned, last_out,
                           error, report, csv>>
    /\ UNCHANGED <<args, Rstar, trialVars, extrapVars, normVars, sweepVars>>

\* lines 238-248: one turn of the coarse loop
CoarseStep ==
    /\ pc = "coarse"
    /\ rate <= args.max_rate
    /\ \E out \in RunnerOutputs(rate) :
         LET t == RunPerftest(args, rate, out)
         IN  IF t.raised # "" THEN Aborts(t, out)
             ELSE /\ Records("coarse", rate, t, out)
                  /\ IF t.summary.success
                     THEN /\ last_ok' = rate
                          /\ rate' = NextRate(rate, args.growth)
                          /\ UNCHANGED <<hi, pc>>
                     ELSE /\ hi' = <<rate>>
                          /\ pc' = "decide"
                          /\ UNCHANGED <<rate, last_ok>>
                  /\ UNCHANGED <<lo, error, report, csv>>
    /\ UNCHANGED <<args, Rstar, trialVars, extrapVars, normVars, sweepVars>>

\* line 238: the loop condition fails
CoarseExit ==
    /\ pc = "coarse"
    /\ ~(rate <= args.max_rate)
    /\ pc' = "decide"
    /\ UNCHANGED <<args, searchVars, trialVars, extrapVars, normVars, sweepVars>>

\* lines 250-265: the two early reports, or the start of the refinement
Decide ==
    /\ pc = "decide"
    /\ IF last_ok = 0 /\ hi = <<>>
       THEN /\ report' = <<ReportNoSuccess>>
            /\ csv' = WriteCsvs(csv, all_ts_rows, all_sum_rows)
            /\ pc' = "done"
            /\ UNCHANGED lo
       ELSE IF hi = <<>>
       THEN /\ report' = <<ReportCapped(last_ok, args.max_rate)>>
            /\ csv' = WriteCsvs(csv, all_ts_rows, all_sum_rows)
            /\ pc' = "done"
            /\ UNCHANGED lo
       ELSE /\ lo' = <<last_ok>>
            /\ pc' = "refine"
            /\ UNCHANGED <<report, csv>>
    /\ UNCHANGED <<args, Rstar, rate, last_ok, hi, all_ts_rows, all_sum_rows, calls,
                   returned, last_out, error, trialVars, extrapVars,
                   normVars, sweepVars>>

\* lines 267-275: one turn of the refinement loop
RefineStep ==
    /\ pc = "refine"
    /\ hi[1] - lo[1] > Tolerance(lo[1])
    /\ \E out \in RunnerOutputs(Mid(lo[1], hi[1])) :
         LET mid == Mid(lo[1], hi[1])
             t == RunPerftest(args, mid, out)
         IN  IF t.raised # "" THEN Aborts(t, out)
             ELSE /\ Records("refine", mid, t, out)
                  /\ IF t.summary.success
                     THEN lo' = <<mid>> /\ UNCHANGED hi
                     ELSE hi' = <<mid>> /\ UNCHANGED lo
                  /\ UNCHANGED <<pc, rate, last_ok, error, report, csv>>
    /\ UNCHANGED <<args, Rstar, trialVars, extrapVars, normVars, sweepVars>>

\* lines 267, 277-283: the loop condition fails; the estimate and the logs
RefineExit ==
    /\ pc = "refine"
    /\ ~(hi[1] - lo[1] > Tolerance(lo[1]))
    /\ report' = <<ReportEstimate(lo[1])>>
    /\ csv' = WriteCsvs(csv, all_ts_rows, all_sum_rows)
    /\ pc' = "done"
    /\ UNCHANGED <<args, Rstar, rate, last_ok, hi, lo, all_ts_rows, all_sum_rows,
                   calls, returned, last_out, error, trialVars, extrapVars,
                   normVars, sweepVars>>

\* the state of main() after line 221
SearchStart ==
    /\ pc = "warmup"
    /\ rate = 0
    /\ last_ok = 0
    /\ hi = <<>>
    /\ lo = <<>>
    /\ all_ts_rows = <<>>
    /\ all_sum_rows = <<>>
    /\ calls = 0
    /\ returned = <<>>
    /\ last_out = <<>>
    /\ error = ""
    /\ report = <<>>
    /\ csv = [writes |-> 0, ts_rows |-> <<>>, sum_rows |-> <<>>]
    /\ output = <<>>
    /\ trial = <<>>
    /\ normalized_df = <<>>
    /\ target_slo = <<>>
    /\ recommendations = <<>>
    /\ NormIdle
    /\ SweepIdle

Init ==
    /\ args \in SearchConfigs
    /\ Rstar = <<>>
    /\ SearchStart

Next == Warmup \/ CoarseStep \/ CoarseExit \/ Decide \/ RefineStep \/ RefineExit

Spec == Init /\ [][Next]_vars

\* the rates the coarse phase of MonoConfig probes end at 100 * 2^13
MonoLastRate == 100 * 2^13

MonoThresholds ==
    {k * RstarStep : k \in 0..RstarCount}
        \cup {0, 99, 100, 101, 199, 200, 201, 12799, 12800, 13055, 13056,
              MonoLastRate - 1, MonoLastRate, MonoLastRate + 1,
              MonoLastRate + MonoLastRate \div RelToleranceInv - 1,
              MonoLastRate + MonoLastRate \div RelToleranceInv,
              MonoConfig.max_rate - 1, MonoConfig.max_rate, MonoConfig.max_rate + 1}

InitMono ==
    /\ args = MonoConfig
    /\ Rstar \in {<<r>> : r \in MonoThresholds}
    /\ SearchStart

SpecMono == InitMono /\ [][Next]_vars

(***************************************************************************)
(* Properties of the search                                                *)
(***************************************************************************)
\* R - l < max(100, 0.02 * l), over the integers
WithinTolerance(R, l) == R - l < AbsTolerance \/ RelToleranceInv * (R - l) < l

MonoDone == Rstar # <<>> /\ pc = "done"

RefinementRan == \E i \in 1..Len(returned) : returned[i].phase = "refine"

\* C1, as stated: with the runner that is stable exactly when rate <= R*,
\* growth 2, start_rate 100 and max_rate 1000000, for every R* the search
\* ends with an estimate lo such that R* - lo < max(100, 0.02 * lo).
C1_ConvergesForEveryThreshold ==
    MonoDone =>
        /\ report[1].kind = "estimate"
        /\ WithinTolerance(Rstar[1], report[1].rate)

\* C1, amended: the same for every R* below 819200, the last rate the coarse
\* phase probes; from R* = 819200 on no trial fails and the search ends with
\* the capped report "max stable throughput >= 819200", without an estimate.
C1_ConvergesBelowLastRate ==
    MonoDone =>
        IF Rstar[1] < MonoLastRate
        THEN /\ report[1] = ReportEstimate(lo[1])
             /\ WithinTolerance(Rstar[1], lo[1])
        ELSE /\ report[1] = ReportCapped(MonoLastRate, args.max_rate)
             /\ lo = <<>>

C1_Witness ==
    /\ MonoDone
    /\ report[1].kind = "estimate"
    /\ RefinementRan
    /\ report[1].rate > args.start_rate
    /\ Rstar[1] > report[1].rate

FirstCoarseUnstable ==
    \E i \in 1..Len(returned) :
        /\ returned[i].phase = "coarse"
        /\ returned[i].rate = args.start_rate
        /\ ~returned[i].success

\* C2: if the first coarse trial (at start_rate) is classified unstable, then
\* last_ok stays 0, no refinement trial is run and the search ends with the
\* report "no successful rate found"; the refinement phase is entered only
\* with last_ok > 0 and a failing hi.
C2_NoBracketNoRefinement ==
    /\ FirstCoarseUnstable =>
           /\ last_ok = 0
           /\ pc # "refine"
           /\ ~RefinementRan
           /\ pc = "done" => report = <<ReportNoSuccess>>
    /\ pc = "refine" => last_ok > 0 /\ hi # <<>>

\* C3: a command line with growth <= 1 is rejected before the coarse phase:
\* no trial is run under it.
C3_GrowthAtMostOneRejected ==
    args.growth.num <= args.growth.den => calls = 0

CappedCase == pc = "done" /\ hi = <<>> /\ last_ok > 0

\* C4, as stated: when the coarse phase ends above max_rate and no trial has
\* failed, the rate named in the capped report is max_rate, and no refinement
\* trial is run.
C4_CappedNamesMaxRate ==
    CappedCase =>
        /\ report[1].kind = "capped"
        /\ report[1].rate = args.max_rate
        /\ ~RefinementRan

\* C4, amended: when the coarse phase ends above max_rate after at least one
\* trial and no trial has failed, the rate named in the capped report is
\* last_ok, the last rate probed: it is at most max_rate, the rate after it
\* is above max_rate, and no refinement trial is run.
C4_CappedNamesLastOk ==
    CappedCase =>
        /\ report[1] = ReportCapped(last_ok, args.max_rate)
        /\ report[1].rate = returned[Len(returned)].rate
        /\ returned[Len(returned)].phase = "coarse"
        /\ returned[Len(returned)].success
        /\ report[1].rate <= args.max_rate
        /\ NextRate(report[1].rate, args.growth) > args.max_rate
        /\ ~RefinementRan
        /\ lo = <<>>

C4_Witness ==
    /\ CappedCase
    /\ report[1].kind = "capped"
    /\ report[1].rate < args.max_rate
    /\ Len(returned) > 1

\* the number of lines of an output that parse into a sample
ParsableSamples(out) ==
    Cardinality({i \in 1..Len(out.lines) :
                    out.lines[i].kind = "compact" /\ ~ParseRaises(out.lines[i])})

\* C5: a trial is a hard failure exactly when the process exits non-zero with
\* no parsable sample; a hard failure ends the search and is not recorded;
\* every other trial returns a classified trial, is recorded, and the search
\* goes on.
C5_AbortsExactlyOnHardFailure ==
    calls > 0 =>
        LET hard == last_out[1].rc # 0 /\ ParsableSamples(last_out[1]) = 0
        IN  /\ pc = "aborted" <=> hard
            /\ hard => error = "RuntimeError" /\ Len(all_sum_rows) = calls - 1
            /\ ~hard => /\ Len(all_sum_rows) = calls
                        /\ all_sum_rows[calls].success \in BOOLEAN

\* C6: the summary run log holds exactly one entry per trial that returned,
\* in the order the trials were run (warmup, coarse and refinement alike).
C6_RunLogComplete ==
    /\ Len(all_sum_rows) = Len(returned)
    /\ Len(returned) = IF pc = "aborted" THEN calls - 1 ELSE calls
    /\ \A i \in 1..Len(returned) :
          /\ all_sum_rows[i].target_rate_msg_s = returned[i].rate
          /\ all_sum_rows[i].success = returned[i].success

C6_Witness ==
    /\ pc = "done"
    /\ \E i, j, k \in 1..Len(returned) :
          /\ i < j /\ j < k
          /\ returned[i].phase = "warmup"
          /\ returned[j].phase = "coarse"
          /\ returned[k].phase = "refine"
    /\ \E i \in 1..Len(all_sum_rows) : ~all_sum_rows[i].success
    /\ \E i \in 1..Len(all_sum_rows) : all_sum_rows[i].success

(***************************************************************************)
(* SpecTrial: run_perftest alone, on every short process output            *)
(***************************************************************************)
SeqsUpTo(S, n) == UNION {[1..k -> S] : k \in 0..n}

\* the thresholds of SpecTrial: the defaults, the strictest ones, and a limit
\* below every latency
TrialConfigs ==
    { Args(1000, 1000000, Frac(2, 1), 0),
      [Args(1000, 1000000, Frac(2, 1), 0) EXCEPT
          !.success_ratio = [num |-> 1, den |-> 1, text |-> "1.0"],
          !.p95_limit_ms = 0],
      [Args(1000, 1000000, Frac(2, 1), 0) EXCEPT
          !.success_ratio = [num |-> 1, den |-> 2, text |-> "0.5"],
          !.p95_limit_ms = -5] }

\* lines of every kind: unmatched, matched with an empty number, nothing sent,
\* ratios below, at and above 0.95, p95 at and above 2000 ms, a latency list
\* of the wrong length, microseconds
TrialLines ==
    {OtherLine, BrokenLine, CompactLine(1, <<0>>, <<0>>, Lat5(312), "ms"),
     CompactLine(1, <<100>>, <<100>>,
                 << <<1>>, <<2>>, <<3>>, <<1500>>, <<2500>> >>, "us")}
        \cup {CompactLine(1, <<100>>, <<r>>, l, "ms") :
                 r \in {90, 95, 100},
                 l \in {Lat5(2000), Lat5(2001), << <<1>>, <<2>> >>}}

TrialOutputs == [rc : {0, 1}, lines : SeqsUpTo(TrialLines, MaxLines)]

\* one call of run_perftest
RunTrial ==
    /\ pc = "trial"
    /\ trial' = <<RunPerftest(args, args.start_rate, output[1])>>
    /\ pc' = "trial_done"
    /\ UNCHANGED <<args, searchVars, output, extrapVars, normVars, sweepVars>>

InitTrial ==
    /\ args \in TrialConfigs
    /\ Rstar = <<>>
    /\ rate = 0
    /\ last_ok = 0
    /\ hi = <<>>
    /\ lo = <<>>
    /\ all_ts_rows = <<>>
    /\ all_sum_rows = <<>>
    /\ calls = 0
    /\ returned = <<>>
    /\ last_out = <<>>
    /\ error = ""
    /\ report = <<>>
    /\ csv = [writes |-> 0, ts_rows |-> <<>>, sum_rows |-> <<>>]
    /\ pc = "trial"
    /\ output \in {<<o>> : o \in TrialOutputs}
    /\ trial = <<>>
    /\ normalized_df = <<>>
    /\ target_slo = <<>>
    /\ recommendations = <<>>
    /\ NormIdle
    /\ SweepIdle

NextTrial == RunTrial

SpecTrial == InitTrial /\ [][NextTrial]_vars

TrialReturned == pc = "trial_done" /\ trial[1].raised = ""

\* C7: for every trial run_perftest returns, success is true if and only if
\* the note (the joined reason codes) is empty.
C7_SuccessIffNoReason ==
    TrialReturned => (trial[1].summary.success <=> trial[1].summary.note = "")

C7_Witness ==
    /\ TrialReturned
    /\ ~trial[1].summary.success
    /\ trial[1].summary.note = "ratio_below_0.95;p95_over_2000ms"

\* the aggregates run_perftest can reach on the outputs of SpecTrial
ReturnedStats ==
    {t.stats : t \in {u \in {RunPerftest(Args(1000, 1000000, Frac(2, 1), 0), 1000, o) :
                                o \in TrialOutputs} : u.raised = ""}}

\* avg_recv / avg_sent, for avg_sent > 0
Ratio(st) ==
    Frac(st.avg_recv.num * st.avg_sent.den, st.avg_recv.den * st.avg_sent.num)

MoreReceived(st, st2) ==
    /\ FracEq(st2.avg_sent, st.avg_sent)
    /\ st2.worst_p95 = st.worst_p95
    /\ ~FracLess(st2.avg_recv, st.avg_recv)

P95RaisedOverLimit(st, st2) ==
    /\ st2.avg_sent.num > 0
    /\ FracEq(Ratio(st2), Ratio(st))
    /\ st2.worst_p95 > st.worst_p95
    /\ st2.worst_p95 > args.p95_limit_ms

\* C8: the classification is monotone.  If a trial is a success, a trial with
\* the same avg_sent and worst_p95 and an avg_received at least as large is a
\* success too, and a trial with the same received/sent ratio whose worst_p95
\* was raised above p95_limit_ms is a failure.
C8_ClassificationMonotone ==
    (TrialReturned /\ trial[1].summary.success) =>
        \A st2 \in ReturnedStats :
            /\ MoreReceived(trial[1].stats, st2) =>
                   StabilitySuccess(args, st2.avg_sent, st2.avg_recv, st2.worst_p95)
            /\ P95RaisedOverLimit(trial[1].stats, st2) =>
                   ~StabilitySuccess(args, st2.avg_sent, st2.avg_recv, st2.worst_p95)

C8_Witness ==
    /\ TrialReturned
    /\ trial[1].summary.success
    /\ \E st2 \in ReturnedStats :
          /\ MoreReceived(trial[1].stats, st2)
          /\ FracLess(trial[1].stats.avg_recv, st2.avg_recv)
    /\ \E st2 \in ReturnedStats :
          /\ P95RaisedOverLimit(trial[1].stats, st2)
          /\ trial[1].stats.worst_p95 >= 0

(***************************************************************************)
(* generate_capacity_extrapolation and capacity_extrapolation_example      *)
(*                                                                         *)
(* A normalized record is [component_type, latency, throughput, per_core,  *)
(* per_gb]: latency is the column latency_ms of a DB record and            *)
(* worst_p95_ms of an MQ record, throughput is tps or avg_received_msg_s,  *)
(* per_core is tps_per_core or msg_per_sec_per_core, per_gb is             *)
(* tps_per_gb_memory or msg_per_sec_per_gb_memory.  Throughputs count      *)
(* hundredths, the two decimals the normalizer keeps.  The frame has the   *)
(* columns of the records it was built from: an empty frame has none, a    *)
(* frame of MQ records has no column latency_ms.                           *)
(***************************************************************************)
Row(ctype, latency, level) ==
    [component_type |-> ctype, latency |-> latency, throughput |-> level[1],
     per_core |-> level[2], per_gb |-> level[3]]

\* throughput, per core and per GB on the default 4 cores and 4 GB: 1000, 400
\* and 0.01 per second (the last rounds to 0.00 per core)
Level1000 == <<100000, 25000, 25000>>
Level400 == <<40000, 10000, 10000>>
LevelTiny == <<1, 0, 0>>

\* the records of both kinds, and the MQ record of a stable trial none of
\* whose samples had a p95 (worst_p95_ms = -1)
NormalizedRows ==
    UNION {{Row(c, 10, Level400), Row(c, 10, Level1000), Row(c, 60, Level1000),
            Row(c, 10, LevelTiny)} : c \in {"DB", "MQ"}}
        \cup {Row("MQ", -1, Level1000)}

\* targets: none, 5000 or 5001 per second, under a limit of 50 ms
SloTargets ==
    [component_type : {"DB", "MQ"}, target : {0, 500000, 500100},
     max_latency : {50}]

\* the columns of the frame
HasColumn(df, col) ==
    CASE col = "component_type" -> df # <<>>
      [] col = "latency_ms" -> \E i \in 1..Len(df) : df[i].component_type = "DB"
      [] col = "worst_p95_ms" -> \E i \in 1..Len(df) : df[i].component_type = "MQ"

LatencyColumn(slo) ==
    IF slo.component_type = "DB" THEN "latency_ms" ELSE "worst_p95_ms"

\* lines 251-254 and 288-291: the rows (by position) of valid_data
ValidDataIgnoresLatency(df, slo) ==
    {i \in 1..Len(df) : df[i].component_type = slo.component_type}
ValidData(df, slo) ==
    {i \in 1..Len(df) :
        /\ df[i].component_type = slo.component_type
        /\ df[i].latency <= slo.max_latency}

\* lines 258 and 295: idxmax, the first row of the largest per-core throughput
IdxMax(df, rows) ==
    CHOOSE i \in rows :
        \A j \in rows :
            \/ df[j].per_core < df[i].per_core
            \/ df[j].per_core = df[i].per_core /\ i <= j

\* np.ceil(target / per) for target >= 0 and per > 0
CeilDivFloors(target, per) == target \div per
CeilDiv(target, per) == (target + per - 1) \div per

\* lines 269-280 and 306-317: the recommendation made from the row `best`
Recommendation(slo, best) ==
    [component_type |-> slo.component_type,
     target |-> slo.target,
     max_latency |-> slo.max_latency,
     required_cpu_cores |-> CeilDiv(slo.target, best.per_core),
     required_memory_gb |-> CeilDiv(slo.target, best.per_gb),
     estimated_latency |-> Frac(best.latency * slo.target, best.throughput),
     baseline_per_core |-> best.per_core,
     baseline_per_gb |-> best.per_gb,
     baseline_test_throughput |-> best.throughput,
     baseline_test_latency |-> best.latency]

\* lines 243-319: generate_capacity_extrapolation.  `best` is the position of
\* the baseline, <<>> if none was selected.  Indexing a missing column raises
\* KeyError; int(np.ceil(target / 0.0)) raises (OverflowError on infinity,
\* ValueError on NaN).
GenerateCapacityExtrapolation(df, slo) ==
    IF ~HasColumn(df, "component_type") \/ ~HasColumn(df, LatencyColumn(slo))
    THEN [raised |-> "KeyError", recs |-> <<>>, best |-> <<>>]
    ELSE IF ValidData(df, slo) = {}
    THEN [raised |-> "", recs |-> <<>>, best |-> <<>>]
    ELSE LET b == IdxMax(df, ValidData(df, slo))
         IN  IF df[b].per_core = 0 \/ df[b].per_gb = 0
             THEN [raised |-> "OverflowError", recs |-> <<>>, best |-> <<b>>]
             ELSE [raised |-> "", recs |-> <<Recommendation(slo, df[b])>>,
                   best |-> <<b>>]

\* collect_and_normalize.py lines 204-217: the caller saves a non-empty
\* result and warns about an empty one; an exception ends it
CapacityExtrapolationExample ==
    /\ pc = "extrapolate"
    /\ LET r == GenerateCapacityExtrapolation(normalized_df, target_slo[1])
       IN  /\ recommendations' = <<r>>
           /\ pc' = IF r.raised # "" THEN "extrap_raised"
                    ELSE IF Len(r.recs) > 0 THEN "extrap_saved"
                    ELSE "extrap_warned"
    /\ UNCHANGED <<args, searchVars, trialVars, normalized_df, target_slo, normVars,
                 sweepVars>>

InitExtrap ==
    /\ args = Args(1000, 1000000, Frac(2, 1), 0)
    /\ Rstar = <<>>
    /\ rate = 0
    /\ last_ok = 0
    /\ hi = <<>>
    /\ lo = <<>>
    /\ all_ts_rows = <<>>
    /\ all_sum_rows = <<>>
    /\ calls = 0
    /\ returned = <<>>
    /\ last_out = <<>>
    /\ error = ""
    /\ report = <<>>
    /\ csv = [writes |-> 0, ts_rows |-> <<>>, sum_rows |-> <<>>]
    /\ output = <<>>
    /\ trial = <<>>
    /\ pc = "extrapolate"
    /\ normalized_df \in SeqsUpTo(NormalizedRows, MaxRows)
    /\ target_slo \in {<<t>> : t \in SloTargets}
    /\ recommendations = <<>>
    /\ NormIdle
    /\ SweepIdle

NextExtrap == CapacityExtrapolationExample

SpecExtrap == InitExtrap /\ [][NextExtrap]_vars

ExtrapDone == pc \in {"extrap_raised", "extrap_saved", "extrap_warned"}

\* the record passes the filter of the target
Passes(row, slo) ==
    row.component_type = slo.component_type /\ row.latency <= slo.max_latency

\* C9: the baseline is never a record whose latency exceeds the constraint of
\* the target or whose component type differs from the target's, whatever
\* its per-core throughput.
C9_BaselinePassesFilter ==
    (ExtrapDone /\ recommendations[1].best # <<>>) =>
        LET b == normalized_df[recommendations[1].best[1]]
        IN  /\ Passes(b, target_slo[1])
            /\ \A i \in 1..Len(recommendations[1].recs) :
                  /\ recommendations[1].recs[i].baseline_test_latency = b.latency
                  /\ recommendations[1].recs[i].baseline_test_latency
                        <= target_slo[1].max_latency

C9_Witness ==
    /\ pc = "extrap_saved"
    /\ \E i \in 1..Len(normalized_df) :
          /\ normalized_df[i].component_type = target_slo[1].component_type
          /\ normalized_df[i].latency > target_slo[1].max_latency
          /\ normalized_df[i].per_core
                > normalized_df[recommendations[1].best[1]].per_core
    /\ \E i \in 1..Len(normalized_df) :
          normalized_df[i].component_type # target_slo[1].component_type

\* C10: the extrapolation returns exactly one recommendation when some record
\* of the target's component type satisfies the latency constraint, and an
\* empty result, without an error, when none does.
C10_OneOrNoneWithoutError ==
    ExtrapDone =>
        /\ recommendations[1].raised = ""
        /\ Len(recommendations[1].recs) =
              IF \E i \in 1..Len(normalized_df) : Passes(normalized_df[i], target_slo[1])
              THEN 1 ELSE 0

\* C11: when a recommendation is produced, its baseline is the passing record
\* of the largest per-core throughput, and required_cpu_cores is the least
\* integer n with n * baseline per-core throughput >= target throughput
\* (a baseline of 250 per core and a target of 5000 give 20).
C11_BaselineMaxAndLeastCores ==
    pc = "extrap_saved" =>
        LET b == normalized_df[recommendations[1].best[1]]
            rec == recommendations[1].recs[1]
            n == rec.required_cpu_cores
        IN  /\ Passes(b, target_slo[1])
            /\ \A i \in 1..Len(normalized_df) :
                  Passes(normalized_df[i], target_slo[1]) =>
                      normalized_df[i].per_core <= b.per_core
            /\ rec.baseline_per_core = b.per_core
            /\ n * rec.baseline_per_core >= target_slo[1].target
            /\ \A m \in 0..(n - 1) :
                  m * rec.baseline_per_core < target_slo[1].target
            /\ n >= 0
            /\ (rec.baseline_per_core = 25000 /\ target_slo[1].target = 500000)
                  => n = 20

C11_Witness ==
    /\ pc = "extrap_saved"
    /\ target_slo[1].target = 500100
    /\ recommendations[1].recs[1].baseline_per_core = 25000
    /\ recommendations[1].recs[1].required_cpu_cores = 21
    /\ \E i \in 1..Len(normalized_df) :
          /\ Passes(normalized_df[i], target_slo[1])
          /\ normalized_df[i].per_core < 25000

(***************************************************************************)
(* normalize_db_metrics and normalize_mq_metrics                           *)
(*                                                                         *)
(* The raw frame is what pd.read_csv made of a result file: an empty cell  *)
(* is NaN, here <<>>, a filled cell v is <<v>> in the columns the filters  *)
(* read (return_code, tps_excluding, success, avg_received_msg_s) and v    *)
(* itself elsewhere.  The files have text columns (timestamp, error,       *)
(* run_id, note), so iterrows() hands out Python numbers and a division by *)
(* zero raises ZeroDivisionError.  A derived field counts hundredths       *)
(* (round(x, 2)), loss_ratio ten-thousandths (round(x, 4)); a derived      *)
(* field of an MQ record is <<>> when it is NaN.                           *)
(***************************************************************************)
\* the other programs, not started
SearchIdle ==
    /\ args = Args(1000, 1000000, Frac(2, 1), 0)
    /\ Rstar = <<>>
    /\ rate = 0
    /\ last_ok = 0
    /\ hi = <<>>
    /\ lo = <<>>
    /\ all_ts_rows = <<>>
    /\ all_sum_rows = <<>>
    /\ calls = 0
    /\ returned = <<>>
    /\ last_out = <<>>
    /\ error = ""
    /\ report = <<>>
    /\ csv = [writes |-> 0, ts_rows |-> <<>>, sum_rows |-> <<>>]
TrialIdle == output = <<>> /\ trial = <<>>
ExtrapIdle == normalized_df = <<>> /\ target_slo = <<>> /\ recommendations = <<>>

\* longest raw frame, in rows
MaxRawRows == 2

\* round(n / d, 2) in hundredths, round(n / d, 4) in ten-thousandths
Round2(n, d) == RoundHalfEven(100 * n, d)
Round4(n, d) == RoundHalfEven(10000 * n, d)

\* lines 23-33: the environment descriptor (--cpu-cores, --memory-gb)
Environments == [cpu_cores : {0, 4}, memory_gb : {0, 4}]

\* rows of the sweep's result file
DbRawRows ==
    UNION {[clients : {w[1]}, jobs : {w[2]}, latency_ms_avg : {10},
            tps_excluding : {<<>>, <<0>>, <<1000>>},
            return_code : {<<>>, <<0>>, <<1>>}] : w \in {<<0, 0>>, <<8, 4>>}}

\* rows of the search's summary file, which has no producers, consumers or
\* size_bytes column unless one is added (row.get gives 0 for a missing one);
\* worst_p95_ms is -1 for a trial without a sample of known p95
MqRawRows ==
    UNION {[producers : {w[1]}, consumers : {w[2]}, size_bytes : {w[3]},
            worst_p95_ms : {w[4]},
            avg_sent_msg_s : {0, 1000},
            avg_received_msg_s : {<<>>, <<0>>, <<950>>},
            success : {<<>>, <<TRUE>>, <<FALSE>>}] :
               w \in {<<0, 0, 0, -1>>, <<2, 4, 1024, 10>>}}

RawFrames ==
    [kind : {"DB"}, rows : SeqsUpTo(DbRawRows, MaxRawRows)]
        \cup [kind : {"MQ"}, rows : SeqsUpTo(MqRawRows, MaxRawRows)]

\* lines 49 and 57: the row is not skipped.  pd.isna of an empty cell is true,
\* and NaN != 0 is true
DbKept(row) ==
    /\ ~(row.tps_excluding = <<>> \/ row.return_code # <<0>>)
    /\ ~(row.tps_excluding[1] <= 0)

\* line 137: the row is not skipped.  NaN is truthy, so `not NaN` is false,
\* and NaN <= 0 is false
MqKept(row) ==
    ~(   (row.success # <<>> /\ ~row.success[1])
      \/ (row.avg_received_msg_s # <<>> /\ row.avg_received_msg_s[1] <= 0))

\* lines 61 and 76, 150 and 162: the two divisions without a guard
RowRaises(e) == e.cpu_cores = 0 \/ e.memory_gb = 0

\* lines 60-119: the record of a kept row, for an environment that does not
\* raise.  memory_per_tx_bytes divides by tps * 60 > 0 and is left out.
NormalizeDbRow(e, row) ==
    LET tps == row.tps_excluding[1]
        estimated_max_tps == e.cpu_cores * 500
    IN  [component_type |-> "DB",
         clients |-> row.clients,
         jobs |-> row.jobs,
         tps |-> tps,
         latency_ms |-> row.latency_ms_avg,
         tps_per_core |-> Round2(tps, e.cpu_cores),
         tps_per_client |->
             IF row.clients > 0 THEN Round2(tps, row.clients) ELSE 0,
         tps_per_job |-> IF row.jobs > 0 THEN Round2(tps, row.jobs) ELSE 0,
         tps_per_gb_memory |-> Round2(tps, e.memory_gb),
         cpu_utilization_pct |->
             IF estimated_max_tps > 0
             THEN LET u == Round2(tps * 100, estimated_max_tps)
                  IN  IF u < 10000 THEN u ELSE 10000
             ELSE 0,
         test_cpu_cores |-> e.cpu_cores,
         test_memory_gb |-> e.memory_gb]

\* lines 140-220: the record of a kept row, for an environment that does not
\* raise.  With avg_received NaN every quotient of it is NaN, and
\* min(100, NaN) is 100.
NormalizeMqRow(e, row) ==
    LET known == row.avg_received_msg_s # <<>>
        avg_received == row.avg_received_msg_s[1]
        estimated_max_msg_per_sec == e.cpu_cores * 10000
    IN  [component_type |-> "MQ",
         avg_sent_msg_s |-> row.avg_sent_msg_s,
         avg_received_msg_s |-> row.avg_received_msg_s,
         worst_p95_ms |-> row.worst_p95_ms,
         producers |-> row.producers,
         consumers |-> row.consumers,
         size_bytes |-> row.size_bytes,
         msg_per_sec_per_core |->
             IF known THEN <<Round2(avg_received, e.cpu_cores)>> ELSE <<>>,
         msg_per_sec_per_producer |->
             IF row.producers > 0
             THEN IF known THEN <<Round2(avg_received, row.producers)>> ELSE <<>>
             ELSE <<0>>,
         msg_per_sec_per_consumer |->
             IF row.consumers > 0
             THEN IF known THEN <<Round2(avg_received, row.consumers)>> ELSE <<>>
             ELSE <<0>>,
         msg_per_sec_per_gb_memory |->
             IF known THEN <<Round2(avg_received, e.memory_gb)>> ELSE <<>>,
         msg_per_sec_per_kb |->
             IF row.size_bytes > 0
             THEN IF known THEN <<Round2(avg_received * 1024, row.size_bytes)>>
                  ELSE <<>>
             ELSE <<0>>,
         memory_per_msg_bytes |-> <<row.size_bytes * 150>>,
         throughput_mbps |->
             IF known THEN <<Round2(avg_received * row.size_bytes, 1024 * 1024)>>
             ELSE <<>>,
         cpu_utilization_pct |->
             IF estimated_max_msg_per_sec > 0
             THEN IF known
                  THEN LET u == Round2(avg_received * 100, estimated_max_msg_per_sec)
                       IN  <<IF u < 10000 THEN u ELSE 10000>>
                  ELSE <<10000>>
             ELSE <<0>>,
         loss_ratio |->
             IF row.avg_sent_msg_s > 0
             THEN IF known
                  THEN <<Round4(row.avg_sent_msg_s - avg_received, row.avg_sent_msg_s)>>
                  ELSE <<>>
             ELSE <<0>>,
         test_cpu_cores |-> e.cpu_cores,
         test_memory_gb |-> e.memory_gb]

\* lines 46-121 and 134-222: the loop over the rows.  The first kept row of
\* an environment with cpu_cores = 0 or memory_gb = 0 raises and nothing is
\* returned.
NormalizeMetrics(e, df) ==
    LET kept == IF df.kind = "DB" THEN SelectSeq(df.rows, DbKept)
                ELSE SelectSeq(df.rows, MqKept)
    IN  IF kept # <<>> /\ RowRaises(e)
        THEN [raised |-> "ZeroDivisionError", records |-> <<>>]
        ELSE [raised |-> "",
              records |-> [i \in 1..Len(kept) |->
                              IF df.kind = "DB" THEN NormalizeDbRow(e, kept[i])
                              ELSE NormalizeMqRow(e, kept[i])]]

\* main() lines 386-387 and 402-403: one file is read and normalized
Normalize ==
    /\ pc = "normalize"
    /\ LET r == NormalizeMetrics(env[1], raw_df[1])
       IN  /\ results' = <<r>>
           /\ pc' = IF r.raised # "" THEN "normalize_raised" ELSE "normalized"
    /\ UNCHANGED <<args, searchVars, trialVars, extrapVars, env, raw_df, sweepVars>>

InitNorm ==
    /\ pc = "normalize"
    /\ SearchIdle
    /\ TrialIdle
    /\ ExtrapIdle
    /\ SweepIdle
    /\ env \in {<<e>> : e \in Environments}
    /\ raw_df \in {<<f>> : f \in RawFrames}
    /\ results = <<>>

NextNorm == Normalize

SpecNorm == InitNorm /\ [][NextNorm]_vars

NormDone == pc \in {"normalized", "normalize_raised"}

\* the rows that should be emitted: return_code == 0 with a present, positive
\* tps_excluding; success true with avg_received_msg_s > 0
DbValid(row) ==
    /\ row.return_code = <<0>>
    /\ row.tps_excluding # <<>>
    /\ row.tps_excluding[1] > 0
MqValid(row) ==
    /\ row.success = <<TRUE>>
    /\ row.avg_received_msg_s # <<>>
    /\ row.avg_received_msg_s[1] > 0

\* the record was made from the row
RecordOf(kind, rec, row) ==
    IF kind = "DB"
    THEN /\ rec.component_type = "DB"
         /\ rec.tps = row.tps_excluding[1]
         /\ rec.clients = row.clients
         /\ rec.jobs = row.jobs
    ELSE /\ rec.component_type = "MQ"
         /\ rec.avg_received_msg_s = row.avg_received_msg_s
         /\ rec.avg_sent_msg_s = row.avg_sent_msg_s
         /\ rec.producers = row.producers

\* the records are those of the rows that satisfy Valid, in the input order
EmitsExactly(Valid(_)) ==
    LET valid == SelectSeq(raw_df[1].rows, Valid)
        recs == results[1].records
    IN  /\ Len(recs) = Len(valid)
        /\ \A i \in 1..Len(valid) : RecordOf(raw_df[1].kind, recs[i], valid[i])

\* C12: normalize_db_metrics emits a record for a row if and only if the row
\* has return_code == 0 and a present tps_excluding > 0; normalize_mq_metrics
\* emits a record if and only if the row has success true and
\* avg_received_msg_s > 0; the records keep the input order and a filtered
\* row produces no record.  (Stated for the environments in which no
\* division raises.)
C12_EmitsIffValid ==
    (NormDone /\ ~RowRaises(env[1])) =>
        /\ results[1].raised = ""
        /\ IF raw_df[1].kind = "DB" THEN EmitsExactly(DbValid)
           ELSE EmitsExactly(MqValid)

\* the half of C12 about normalize_db_metrics
DbEmitsIffValid ==
    (NormDone /\ ~RowRaises(env[1]) /\ raw_df[1].kind = "DB") =>
        EmitsExactly(DbValid)

\* C12 on summary files without an empty success or avg_received cell
MqEmitsIffValidWhenComplete ==
    (/\ NormDone
     /\ ~RowRaises(env[1])
     /\ raw_df[1].kind = "MQ"
     /\ \A i \in 1..Len(raw_df[1].rows) :
           /\ raw_df[1].rows[i].success # <<>>
           /\ raw_df[1].rows[i].avg_received_msg_s # <<>>) =>
        EmitsExactly(MqValid)

\* C13: for every accepted row and every environment descriptor, each derived
\* field whose denominator is zero (cpu_cores, memory_gb, clients, jobs,
\* producers, consumers, size_bytes, avg_sent) is emitted as 0 and the
\* normalization raises no error.
C13_ZeroDenominatorYieldsZero ==
    NormDone =>
        /\ results[1].raised = ""
        /\ \A i \in 1..Len(results[1].records) :
              LET rec == results[1].records[i]
              IN  IF rec.component_type = "DB"
                  THEN /\ rec.test_cpu_cores = 0 =>
                              rec.tps_per_core = 0 /\ rec.cpu_utilization_pct = 0
                       /\ rec.test_memory_gb = 0 => rec.tps_per_gb_memory = 0
                       /\ rec.clients = 0 => rec.tps_per_client = 0
                       /\ rec.jobs = 0 => rec.tps_per_job = 0
                  ELSE /\ rec.test_cpu_cores = 0 =>
                              /\ rec.msg_per_sec_per_core = <<0>>
                              /\ rec.cpu_utilization_pct = <<0>>
                       /\ rec.test_memory_gb = 0 =>
                              rec.msg_per_sec_per_gb_memory = <<0>>
                       /\ rec.producers = 0 => rec.msg_per_sec_per_producer = <<0>>
                       /\ rec.consumers = 0 => rec.msg_per_sec_per_consumer = <<0>>
                       /\ rec.size_bytes = 0 => rec.msg_per_sec_per_kb = <<0>>
                       /\ rec.avg_sent_msg_s = 0 => rec.loss_ratio = <<0>>

\* the guarded denominators of C13: in an environment with cores and memory,
\* clients, jobs, producers, consumers, size_bytes and avg_sent of 0 give 0
GuardedDenominatorsYieldZero ==
    (NormDone /\ ~RowRaises(env[1])) => C13_ZeroDenominatorYieldsZero

\* C14: parsing one line of the output never raises: every line yields a
\* populated sample or is skipped as "no match", also a line of the compact
\* shape with an empty number in its count or latency list ("1//2", a lone
\* ",").
C14_ParsingNeverRaises ==
    pc = "trial_done" => trial[1].raised # "ValueError"

\* max(r + 1, round(r * growth)), with Python's round
NextRateRounded(r, growth) == Max2(r + 1, RoundHalfEven(r * growth.num, growth.den))

\* the coarse trials so far obey: after a success at r, last_ok = r and the
\* next coarse trial is at Step(r, growth); a failure at r sets hi = r and is
\* the last coarse trial
CoarseRule(Step(_, _)) ==
    \A i \in 1..Len(returned) :
        returned[i].phase = "coarse" =>
            IF returned[i].success
            THEN /\ (\A j \in (i + 1)..Len(returned) :
                        ~(returned[j].phase = "coarse" /\ returned[j].success))
                    => last_ok = returned[i].rate
                 /\ (i < Len(returned) /\ returned[i + 1].phase = "coarse")
                    => returned[i + 1].rate = Step(returned[i].rate, args.growth)
            ELSE /\ \A j \in (i + 1)..Len(returned) : returned[j].phase # "coarse"
                 /\ i = Len(returned) => hi = <<returned[i].rate>>

\* C16: in the coarse phase, after a successful trial at rate r the engine
\* sets last_ok = r and the next probed rate is max(r + 1, round(r * growth));
\* after a failed trial at rate r it sets hi = r and runs no further coarse
\* trial.
C16_CoarseStepRounds == CoarseRule(NextRateRounded)

\* the same with the rate the code computes, int(max(r + 1, r * growth))
CoarseStepTruncates == CoarseRule(NextRate)

\* max(100, floor(0.02 * max(1, l)))
RefineTolerance(l) == Max2(100, Max2(1, l) \div 50)

\* one step of the refinement returned: a trial was added to the run log
RefineProbed == pc = "refine" /\ Len(returned') = Len(returned) + 1

\* C17: in the refinement phase each step probes mid = floor((lo + hi) / 2),
\* sets lo = mid on success and hi = mid on failure, and the phase stops
\* exactly when hi - lo <= max(100, floor(0.02 * max(1, lo))); the value
\* reported is the final lo.
C17_RefinementBisects ==
    [][/\ RefineProbed =>
            LET probe == returned'[Len(returned')]
            IN  /\ hi[1] - lo[1] > RefineTolerance(lo[1])
                /\ probe.phase = "refine"
                /\ 2 * probe.rate <= lo[1] + hi[1]
                /\ lo[1] + hi[1] < 2 * probe.rate + 2
                /\ IF probe.success
                   THEN lo' = <<probe.rate>> /\ hi' = hi
                   ELSE hi' = <<probe.rate>> /\ lo' = lo
                /\ pc' = "refine"
       /\ (pc = "refine" /\ pc' = "done") =>
            /\ hi[1] - lo[1] <= RefineTolerance(lo[1])
            /\ lo' = lo
            /\ report' = <<[kind |-> "estimate", rate |-> lo[1]]>>
       /\ (pc = "refine" /\ pc' = "refine") => RefineProbed
       /\ (pc # "refine" /\ pc' = "done") => report'[1].kind # "estimate"]_vars

\* a search that bisected in both directions under the relative tolerance and
\* reported its final lo
C17_Witness ==
    /\ pc = "done"
    /\ report[1].kind = "estimate"
    /\ report[1].rate = lo[1]
    /\ RefineTolerance(lo[1]) > 100
    /\ hi[1] - lo[1] <= RefineTolerance(lo[1])
    /\ \E i, j \in 1..Len(returned) :
          /\ returned[i].phase = "refine" /\ returned[i].success
          /\ returned[j].phase = "refine" /\ ~returned[j].success

\* the note the stated rule gives for the aggregates of the returned trial
NoteByRule ==
    LET st == trial[1].stats
        ratio_reason == "ratio_below_" \o args.success_ratio.text
        p95_reason == "p95_over_" \o ToString(args.p95_limit_ms) \o "ms"
    IN  IF st.avg_sent.num <= 0 THEN "no_data"
        ELSE LET below == FracLess(Ratio(st), args.success_ratio)
                 over == st.worst_p95 >= 0 /\ st.worst_p95 > args.p95_limit_ms
             IN  CASE below /\ over -> ratio_reason \o ";" \o p95_reason
                   [] below /\ ~over -> ratio_reason
                   [] ~below /\ over -> p95_reason
                   [] OTHER -> ""

\* C18: the classification yields the reason no_data alone when
\* avg_sent <= 0; otherwise it records ratio_below_<success_ratio> iff
\* avg_received / avg_sent < success_ratio and, independently,
\* p95_over_<limit>ms iff worst_p95 >= 0 and worst_p95 > p95_limit_ms; both
\* reasons are recorded when both checks fail, and worst_p95 = -1 never
\* produces the latency reason.
C18_ReasonsByRule ==
    TrialReturned =>
        /\ trial[1].summary.note = NoteByRule
        /\ trial[1].stats.worst_p95 = -1 =>
              trial[1].summary.note \in {"", "no_data",
                                         "ratio_below_" \o args.success_ratio.text}

\* both checks fail under the strictest thresholds
C18_Witness ==
    /\ TrialReturned
    /\ trial[1].summary.note = "ratio_below_1.0;p95_over_0ms"
    /\ FracLess(Ratio(trial[1].stats), args.success_ratio)
    /\ trial[1].stats.worst_p95 > args.p95_limit_ms

\* a trial of unknown latency under a limit below -1: no latency reason
SentinelUnderNegativeLimit ==
    /\ TrialReturned
    /\ trial[1].stats.worst_p95 = -1
    /\ args.p95_limit_ms < -1
    /\ trial[1].summary.note = ""

\* C20: a trial's worst_p95 is the maximum p95 over its samples whose p95 is
\* not the unknown sentinel -1, and is -1 when the trial has at least one
\* sample but none with a known p95; samples with p95 = -1 never lower or
\* raise worst_p95.
C20_WorstP95OverKnownSamples ==
    (TrialReturned /\ trial[1].timeseries # <<>>) =>
        LET ts == trial[1].timeseries
            known == {i \in 1..Len(ts) : ts[i].p95_ms # -1}
            w == trial[1].summary.worst_p95_ms
            IsKnown(sample) == sample.p95_ms # -1
        IN  /\ known = {} => w = -1
            /\ known # {} =>
                  /\ \E i \in known : ts[i].p95_ms = w
                  /\ \A i \in known : ts[i].p95_ms <= w
                  /\ Summary(args, args.start_rate,
                             SelectSeq(ts, IsKnown)).worst_p95_ms = w

\* a known p95 after and before an unknown one, and two known ones
C20_Witness ==
    /\ TrialReturned
    /\ Len(trial[1].timeseries) = 2
    /\ trial[1].timeseries[1].p95_ms = -1
    /\ trial[1].timeseries[2].p95_ms = 2001
    /\ trial[1].summary.worst_p95_ms = 2001

\* every sample of the trial has an unknown p95
AllSamplesUnknown ==
    /\ TrialReturned
    /\ Len(trial[1].timeseries) = 2
    /\ \A i \in 1..2 : trial[1].timeseries[i].p95_ms = -1
    /\ trial[1].summary.worst_p95_ms = -1

(***************************************************************************)
(* kbbench_sweep.py: run_kbbench, parse_metrics and the sweep of main()    *)
(*                                                                         *)
(* The text a run leaves is [text, tps_including, tps_excluding,           *)
(* latency_ms_avg, tx_processed]: `text` stands for the characters and the *)
(* four others for what the four patterns capture in them, <<>> when the   *)
(* pattern does not match.  The patterns of the three floats capture       *)
(* [0-9.]+, which float() converts or, for a capture such as "1.2.3" or    *)
(* ".", rejects with ValueError: a capture is [valid, value].              *)
(***************************************************************************)
Captured(v) == <<[valid |-> TRUE, value |-> v]>>
CapturedMalformed == <<[valid |-> FALSE, value |-> 0]>>

KbText(text, inc, exc, lat, tx) ==
    [text |-> text, tps_including |-> inc, tps_excluding |-> exc,
     latency_ms_avg |-> lat, tx_processed |-> tx]

\* what one call of run_kbbench (lines 235-246) can do: return the exit code
\* and the output of the process, or raise (docker missing)
KbReport ==
    [raised |-> FALSE, rc |-> 0,
     out |-> KbText("tps = 990 (including; tps = 1000 (excluding", Captured(990),
                    Captured(1000), Captured(8), <<60000>>)]
KbNoSummary ==
    [raised |-> FALSE, rc |-> 0, out |-> KbText("progress", <<>>, <<>>, <<>>, <<>>)]
KbExited ==
    [raised |-> FALSE, rc |-> 1,
     out |-> KbText("connection refused", <<>>, <<>>, <<>>, <<>>)]
KbExitedSilent ==
    [raised |-> FALSE, rc |-> 1, out |-> KbText("", <<>>, <<>>, <<>>, <<>>)]
KbRaised ==
    [raised |-> TRUE, rc |-> 0,
     out |-> KbText("No such file or directory: 'docker'", <<>>, <<>>, <<>>, <<>>)]
KbMalformed ==
    [raised |-> FALSE, rc |-> 0,
     out |-> KbText("tps = 1.2.3 (including", CapturedMalformed, <<>>, <<>>, <<>>)]

KbOutcomes == {KbReport, KbNoSummary, KbExited, KbExitedSilent, KbRaised, KbMalformed}

\* lines 234-249: the call and its except clause
RunKbbench(o) ==
    IF o.raised THEN [rc |-> 1, out |-> o.out] ELSE [rc |-> o.rc, out |-> o.out]

\* float(m.group(1)) of a capture
FloatRaises(cap) == cap # <<>> /\ ~cap[1].valid
FloatOf(cap) == IF cap = <<>> THEN <<>> ELSE <<cap[1].value>>

\* lines 43-61 and 137-146: parse_metrics; an absent metric is None
ParseMetrics(out) ==
    IF \/ FloatRaises(out.tps_including)
       \/ FloatRaises(out.tps_excluding)
       \/ FloatRaises(out.latency_ms_avg)
    THEN [raised |-> "ValueError", metrics |-> <<>>]
    ELSE [raised |-> "",
          metrics |-> <<[tps_including |-> FloatOf(out.tps_including),
                         tps_excluding |-> FloatOf(out.tps_excluding),
                         latency_ms_avg |-> FloatOf(out.latency_ms_avg),
                         tx_processed |-> out.tx_processed]>>]

\* lines 257-268: the row; None is <<>>
SweepRow(c, rc, out, metrics) ==
    [clients |-> c,
     tps_including |-> metrics.tps_including,
     tps_excluding |-> metrics.tps_excluding,
     latency_ms_avg |-> metrics.latency_ms_avg,
     tx_processed |-> metrics.tx_processed,
     return_code |-> rc,
     error |-> IF rc = 0 THEN <<>>
               ELSE IF out.text # "" THEN <<out.text>> ELSE <<"unknown error">>]

\* line 271: a sleep follows the run
CooldownFollows(client_list, repeats, c, r) ==
    c # client_list[Len(client_list)] \/ r # repeats

\* lines 231-232: the two loops are exhausted
SweepExhausted ==
    sweep_at[1].ci > Len(sweep_args[1].client_list) \/ sweep_args[1].repeats < 1

\* lines 233-272: one turn of the inner loop.  An exception of parse_metrics
\* is not caught: it ends main() before the row is appended.
SweepRun ==
    /\ pc = "sweep"
    /\ ~SweepExhausted
    /\ \E o \in KbOutcomes :
         LET client_list == sweep_args[1].client_list
             repeats == sweep_args[1].repeats
             c == client_list[sweep_at[1].ci]
             r == sweep_at[1].r
             res == RunKbbench(o)
             parsed == ParseMetrics(res.out)
             ran == [kind |-> "run", clients |-> c, round |-> r]
         IN  IF parsed.raised # ""
             THEN /\ pc' = "sweep_raised"
                  /\ sweep_error' = parsed.raised
                  /\ events' = Append(events, ran)
                  /\ UNCHANGED <<out_csv, sweep_at>>
             ELSE /\ out_csv' = Append(out_csv,
                                       SweepRow(c, res.rc, res.out, parsed.metrics[1]))
                  /\ events' =
                        IF CooldownFollows(client_list, repeats, c, r)
                        THEN events \o <<ran, [kind |-> "sleep", clients |-> c, round |-> r]>>
                        ELSE Append(events, ran)
                  /\ sweep_at' =
                        IF r < repeats
                        THEN <<[ci |-> sweep_at[1].ci, r |-> r + 1]>>
                        ELSE <<[ci |-> sweep_at[1].ci + 1, r |-> 1]>>
                  /\ UNCHANGED <<pc, sweep_error>>
    /\ UNCHANGED <<args, searchVars, trialVars, extrapVars, normVars, sweep_args>>

\* line 274: the loops are over
SweepExit ==
    /\ pc = "sweep"
    /\ SweepExhausted
    /\ pc' = "sweep_done"
    /\ UNCHANGED <<args, searchVars, trialVars, extrapVars, normVars, sweepVars>>

\* lines 163-178 and 204: the client lists expand_clients can return (a
\* single count, distinct counts, a repeated count, none) and --repeats
ClientLists == {<<>>, <<4>>, <<4, 8>>, <<4, 4>>, <<8, 4, 8>>}
RepeatCounts == {0, 1, 2}

InitSweep ==
    /\ pc = "sweep"
    /\ SearchIdle
    /\ TrialIdle
    /\ ExtrapIdle
    /\ NormIdle
    /\ sweep_args \in {<<a>> : a \in [client_list : ClientLists, repeats : RepeatCounts]}
    /\ sweep_at = <<[ci |-> 1, r |-> 1]>>
    /\ out_csv = <<>>
    /\ events = <<>>
    /\ sweep_error = ""

NextSweep == SweepRun \/ SweepExit

SpecSweep == InitSweep /\ [][NextSweep]_vars

SweepEnded == pc \in {"sweep_done", "sweep_raised"}

\* the runs among the events
IsRun(e) == e.kind = "run"
RunEvents == SelectSeq(events, IsRun)

\* C15: in the sweep a cooldown delay is inserted between every two
\* consecutive benchmark runs and none after the final run, for every client
\* list (also one that repeats a client count) and every repeats value.
C15_CooldownBetweenRuns ==
    /\ \A i \in 1..(Len(events) - 1) :
          events[i].kind = "run" => events[i + 1].kind = "sleep"
    /\ (pc = "sweep_done" /\ events # <<>>) => events[Len(events)].kind = "run"

\* the same for the lists in which the last client count occurs only once
CooldownWhenLastCountIsUnique ==
    LET client_list == sweep_args[1].client_list
    IN  (\A i \in 1..(Len(client_list) - 1) :
            client_list[i] # client_list[Len(client_list)])
        => C15_CooldownBetweenRuns

\* the (client count, repeat) pairs in list order
SweepPairs ==
    LET client_list == sweep_args[1].client_list
        repeats == sweep_args[1].repeats
    IN  IF repeats < 1 THEN <<>>
        ELSE [k \in 1..(Len(client_list) * repeats) |->
                 [clients |-> client_list[(k - 1) \div repeats + 1],
                  round |-> ((k - 1) % repeats) + 1]]

\* one row per run so far, in the order of the pairs, with an error field
\* that is empty exactly for return code 0
RowPerRun ==
    /\ Len(out_csv) = Len(RunEvents)
    /\ Len(RunEvents) <= Len(SweepPairs)
    /\ \A k \in 1..Len(RunEvents) :
          /\ RunEvents[k].clients = SweepPairs[k].clients
          /\ RunEvents[k].round = SweepPairs[k].round
          /\ out_csv[k].clients = SweepPairs[k].clients
          /\ out_csv[k].error = <<>> <=> out_csv[k].return_code = 0

\* C19: the sweep runs the benchmark once per (client count, repeat) pair in
\* list order and appends exactly one result row per run, whether the run
\* succeeded, exited non-zero or raised an exception; a failed run never
\* stops the sweep, and a row's error field is empty if and only if its
\* return_code is 0.
C19_OneRowPerRunNeverStops ==
    /\ RowPerRun
    /\ SweepEnded =>
          /\ pc = "sweep_done"
          /\ Len(out_csv) = Len(SweepPairs)

\* C19 for the runs whose output has no malformed number
NoMalformedRun ==
    sweep_error = "" =>
        /\ RowPerRun
        /\ SweepEnded => Len(out_csv) = Len(SweepPairs)

(***************************************************************************)
(* Termination of the search                                               *)
(***************************************************************************)
\* main() is sequential: a step that can be taken is taken
SpecFair == Init /\ [][Next]_vars /\ WF_vars(Next)

SearchEnded == pc \in {"done", "aborted"}

\* C21: for every start_rate > 0, every max_rate, every growth (also
\* growth <= 1) and every sequence of trial outcomes the search runs finitely
\* many trials and terminates: the probed coarse rates strictly increase and
\* every refinement step strictly shrinks hi - lo.
C21_SearchTerminates ==
    /\ [][/\ (pc = "coarse" /\ pc' = "coarse") =>
                /\ rate' > rate
                /\ returned'[Len(returned')].rate = rate
          /\ RefineProbed =>
                /\ hi'[1] - lo'[1] < hi[1] - lo[1]
                /\ hi'[1] - lo'[1] > 0]_vars
    /\ <>SearchEnded

\* a search that ended after coarse steps with growth <= 1 and a refinement
C21_Witness ==
    /\ pc = "done"
    /\ args.growth.num <= args.growth.den
    /\ \E i, j \in 1..Len(returned) :
          /\ i < j
          /\ returned[i].phase = "coarse"
          /\ returned[j].phase = "coarse"

\* a search that ended after refinement steps
RefinedToTheEnd ==
    /\ pc = "done"
    /\ Len(SelectSeq(returned, LAMBDA e : e.phase = "refine")) >= 3

(***************************************************************************)
(* The bounds of the refinement                                            *)
(***************************************************************************)
\* the refinement phase has begun (lo is assigned at line 265)
Refining == lo # <<>>

\* a coarse or refinement trial at rate r returned with the given verdict
Probed(r, verdict) ==
    \E i \in 1..Len(returned) :
        /\ returned[i].phase \in {"coarse", "refine"}
        /\ returned[i].rate = r
        /\ returned[i].success = verdict

\* C22: throughout the refinement phase, for any trial outcomes, lo < hi
\* holds, hi is a rate whose trial was classified unstable, lo never
\* decreases and hi never increases.
C22_RefinementBounds ==
    /\ [](Refining => (lo[1] < hi[1] /\ Probed(hi[1], FALSE)))
    /\ [][(Refining /\ lo' # <<>>) => (lo'[1] >= lo[1] /\ hi'[1] <= hi[1])]_vars

\* in the middle of a refinement that has moved both bounds: hi to a failed
\* probe, then lo to a stable one
C22_Witness ==
    /\ pc = "refine"
    /\ lo[1] > last_ok
    /\ \E i, j \in 1..Len(returned) :
          /\ i < j
          /\ returned[i].phase = "refine" /\ ~returned[i].success
          /\ returned[j].phase = "refine" /\ returned[j].success
          /\ returned[i].rate = hi[1]
          /\ returned[j].rate = lo[1]

\* main() printed an estimate
EstimateReported == pc = "done" /\ report[1].kind = "estimate"

\* C23: whenever the search reports an estimated maximum stable rate, that
\* rate is one at which a trial of this run was executed and classified
\* stable.
C23_EstimateWasStable ==
    EstimateReported =>
        \E i \in 1..Len(returned) :
            returned[i].rate = report[1].rate /\ returned[i].success

\* the same for the searches in which some coarse trial was stable
EstimateWasStableAfterSuccess ==
    (EstimateReported /\ last_ok > 0) => Probed(report[1].rate, TRUE)

\* no rate is probed twice across the coarse and refinement phases
NoRateProbedTwice ==
    \A i, j \in 1..Len(returned) :
        (/\ i < j
         /\ returned[i].phase \in {"coarse", "refine"}
         /\ returned[j].phase \in {"coarse", "refine"})
        => returned[i].rate # returned[j].rate

\* C24: within one search run no rate is probed twice across the coarse and
\* refinement phases, and no trial is ever run at a rate greater than
\* max_rate.
C24_NoRepeatNoTrialAboveMax ==
    /\ NoRateProbedTwice
    /\ \A i \in 1..Len(returned) : returned[i].rate <= args.max_rate

\* the same with the second half restricted to the two phases of the search
SearchTrialsWithinMax ==
    /\ NoRateProbedTwice
    /\ \A i \in 1..Len(returned) :
          returned[i].phase \in {"coarse", "refine"}
              => returned[i].rate <= args.max_rate

\* write_csvs was called once, with every trial recorded so far
LogsWrittenOnce ==
    /\ csv.writes = 1
    /\ csv.ts_rows = all_ts_rows
    /\ csv.sum_rows = all_sum_rows

\* C25: however the search run ends (no successful rate, capped, converged,
\* or aborted by a hard failure of the trial runner), the summary and
\* time-series logs are written out exactly once and contain every trial
\* recorded up to that point.
C25_LogsWrittenHoweverItEnds ==
    /\ SearchEnded => LogsWrittenOnce
    /\ csv.writes <= 1

\* the same for the three ends that main() reaches by a return
LogsWrittenOnReturn ==
    /\ pc = "done" => LogsWrittenOnce
    /\ csv.writes <= 1

\* a hard failure after recorded trials: nothing is written
AbortLosesRecordedTrials ==
    /\ pc = "aborted"
    /\ error = "RuntimeError"
    /\ Len(all_sum_rows) >= 2
    /\ csv.writes = 0

(***************************************************************************)
(* The unknown p95 from the trial to the recommendation                    *)
(***************************************************************************)
\* C26: an MQ record whose worst_p95_ms is the unknown sentinel -1 is never
\* used as the extrapolation baseline, so the estimated p95 of every MQ
\* recommendation is non-negative.
C26_SentinelNeverBaseline ==
    (pc = "extrap_saved" /\ target_slo[1].component_type = "MQ") =>
        /\ normalized_df[recommendations[1].best[1]].latency # -1
        /\ recommendations[1].recs[1].baseline_test_latency # -1
        /\ recommendations[1].recs[1].estimated_latency.num >= 0

\* the same when no MQ record of the frame has the sentinel
KnownP95GivesNonNegativeEstimate ==
    (\A i \in 1..Len(normalized_df) : normalized_df[i].latency # -1)
        => C26_SentinelNeverBaseline

\* run_perftest classifies a trial without a known p95 as stable under the
\* default thresholds
StableTrialOfUnknownP95 ==
    /\ TrialReturned
    /\ args.p95_limit_ms = DefaultP95Limit
    /\ trial[1].summary.success
    /\ trial[1].summary.worst_p95_ms = -1

\* normalize_mq_metrics emits the record of such a trial, sentinel included
NormalizedRecordOfUnknownP95 ==
    /\ pc = "normalized"
    /\ \E i \in 1..Len(results[1].records) :
          /\ results[1].records[i].component_type = "MQ"
          /\ results[1].records[i].worst_p95_ms = -1
          /\ results[1].records[i].msg_per_sec_per_core # <<>>
          /\ results[1].records[i].msg_per_sec_per_core[1] > 0

\* a recommendation with a negative estimated p95, although a record of known
\* p95 and the same throughput passes the filter
NegativeEstimatedP95 ==
    /\ pc = "extrap_saved"
    /\ target_slo[1].component_type = "MQ"
    /\ recommendations[1].recs[1].estimated_latency.num < 0
    /\ \E i \in 1..Len(normalized_df) :
          /\ Passes(normalized_df[i], target_slo[1])
          /\ normalized_df[i].latency >= 0

====
